---- MODULE Spec2Model ----
(***************************************************************************)
(* A model of the RAG MCP server (class RAGServer of src/src/rag_server.py *)
(* and safe_reset_chromadb of src/chromadb_utils.py): directory            *)
(* resolution, the startup reset, ingestion of the data directory, and the *)
(* caller-facing tools, over a small model of the environment, the file    *)
(* system and the ChromaDB store; of the chunking loop of the ingestion    *)
(* script src/tests/simple_test_llamaparse.py; and of the tools' store     *)
(* calls interleaved by a concurrent dispatcher.                           *)
(***************************************************************************)
EXTENDS Integers, Sequences, FiniteSets, TLC

VARIABLES
    env,        \* the process environment: LLAMA_RAG_DATA_DIR, LLAMA_RAG_DB_DIR,
                \* XDG_DATA_HOME, LLAMA_CLOUD_API_KEY, and whether a home directory is known
    cwdData,    \* TRUE iff <cwd>/data exists
    dirFiles,   \* the files under the data directory
    resolved,   \* the outcome of the last directory resolution that was run on its own
    phase,      \* "boot" (process launched), "started" (RAGServer() returned),
                \* "serving" (mcp.run accepts requests), "crashed" (RAGServer() raised)
    store,      \* the store directory on disk: [dir, cid, docs]
    client,     \* self.chroma_client is not None
    handle,     \* self.collection: 0 for None, else the id of the collection it refers to
    nextId,     \* ids handed out so far (collection ids, ingestion passes)
    last,       \* the last operation of the server: its arguments, what it returned,
                \* the store calls it made
    reported,   \* what the get_rag_status calls returned since the last call of
                \* reingest_data_directory: a set of [status, total_documents]
    chunker,    \* the chunking loop of the ingestion scripts: its inputs, its start
                \* offset, the chunks made so far, and whether it runs
    running     \* the tool calls a concurrent dispatcher has in flight: for each
                \* caller the tool, the statement it stands at, and its local variables

vars == <<env, cwdData, dirFiles, resolved, phase, store, client, handle, nextId, last, reported, chunker, running>>

-----------------------------------------------------------------------------
(* Paths. A path is [anchor, parts]: anchor "abs" for /a/b, "rel" for a/b,  *)
(* "tilde" for ~/a/b. An environment value is unset, the empty string, or  *)
(* the text of a path.                                                     *)

Unset == [kind |-> "unset", anchor |-> "rel", parts |-> <<>>]
EmptyStr == [kind |-> "empty", anchor |-> "rel", parts |-> <<>>]
TextOf(anchor, parts) == [kind |-> "text", anchor |-> anchor, parts |-> parts]

HomeParts == <<"home", "u">>
CwdParts == <<"work", "proj">>

DataEnvValues ==
    { Unset, EmptyStr,
      TextOf("abs", <<"srv", "docs">>),
      TextOf("rel", <<"..", "docs">>),
      TextOf("tilde", <<"docs">>) }

DbEnvValues ==
    { Unset, EmptyStr,
      TextOf("abs", <<"srv", "db">>),
      TextOf("rel", <<"..", "db">>),
      TextOf("tilde", <<"db">>) }

XdgEnvValues ==
    { Unset, EmptyStr,
      TextOf("abs", <<"srv", "xdg">>),
      TextOf("rel", <<"xdg">>),
      TextOf("tilde", <<"xdg">>) }

KeyValues == { "", "k1", "k2" }

\* Python's truth test of os.getenv(...): None and "" are false
Truthy(v) == v.kind = "text"

\* Path(text): the empty string is the path "."
PathOf(v) == [anchor |-> v.anchor, parts |-> v.parts]

NoPath == [anchor |-> "none", parts |-> <<>>]

Join(p, name) == [anchor |-> p.anchor, parts |-> Append(p.parts, name)]

\* Path.expanduser(): a leading ~ is replaced by the home directory; fails when
\* the home directory cannot be determined
CanExpand(p, homeKnown) == p.anchor # "tilde" \/ homeKnown

ExpandUser(p) ==
    IF p.anchor = "tilde"
    THEN [anchor |-> "abs", parts |-> HomeParts \o p.parts]
    ELSE p

RECURSIVE Normalize(_, _)
\* drops "." and resolves ".." against what precedes it (".." at the root stays at the root)
Normalize(done, todo) ==
    IF todo = <<>> THEN done
    ELSE LET h == Head(todo)
         IN  IF h = "." THEN Normalize(done, Tail(todo))
             ELSE IF h = ".."
                  THEN Normalize(IF done = <<>> THEN <<>> ELSE SubSeq(done, 1, Len(done) - 1),
                                 Tail(todo))
                  ELSE Normalize(Append(done, h), Tail(todo))

\* Path.resolve(): absolute, anchored at the current directory when relative
ResolvePath(p) ==
    IF p.anchor = "abs"
    THEN [anchor |-> "abs", parts |-> Normalize(<<>>, p.parts)]
    ELSE IF p.anchor = "rel"
         THEN [anchor |-> "abs", parts |-> Normalize(<<>>, CwdParts \o p.parts)]
         ELSE p

CwdPath == [anchor |-> "abs", parts |-> CwdParts]
HomePath == [anchor |-> "abs", parts |-> HomeParts]

-----------------------------------------------------------------------------
(* Directory resolution. A resolution returns a path or raises; phrases    *)
(* are the pieces of text a message carries.                               *)

Returned(path, source) ==
    [kind |-> "path", path |-> path, source |-> source, phrases |-> {}]

Raised(kind, phrases) ==
    [kind |-> kind, path |-> NoPath, source |-> "none", phrases |-> phrases]

NoDataDirectoryError ==
    Raised("ValueError",
           { "No data directory found", "LLAMA_RAG_DATA_DIR",
             "export LLAMA_RAG_DATA_DIR", "mkdir data" })

NoDatabaseDirectoryError ==
    Raised("ValueError",
           { "No database directory found", "LLAMA_RAG_DB_DIR",
             "export LLAMA_RAG_DB_DIR" })

HomeError == Raised("RuntimeError", { "Could not determine home directory" })

\* the resolution with its first two steps exchanged: ./data, when it exists,
\* is taken before the environment is looked at
GetDataDirectoryCwdFirst(e, dataExists) ==
    IF dataExists
    THEN Returned(Join(CwdPath, "data"), "cwd")
    ELSE IF Truthy(e.data)
         THEN IF CanExpand(PathOf(e.data), e.homeKnown)
              THEN Returned(ResolvePath(ExpandUser(PathOf(e.data))), "env")
              ELSE HomeError
         ELSE NoDataDirectoryError

\* RAGServer._get_data_directory
GetDataDirectory(e, dataExists) ==
    IF Truthy(e.data)
    THEN IF CanExpand(PathOf(e.data), e.homeKnown)
         THEN Returned(ResolvePath(ExpandUser(PathOf(e.data))), "env")
         ELSE HomeError
    ELSE IF dataExists
         THEN Returned(Join(CwdPath, "data"), "cwd")
         ELSE NoDataDirectoryError

\* os.getenv('XDG_DATA_HOME', home_dir / '.local' / 'share'): the default is
\* used only when the variable is absent from the environment
XdgDataHome(e) ==
    IF e.xdg.kind = "unset"
    THEN Join(Join(HomePath, ".local"), "share")
    ELSE PathOf(e.xdg)

\* the resolution with a last resort of ./chroma in the place of the error
GetDatabaseDirectoryFallback(e) ==
    IF Truthy(e.db)
    THEN IF CanExpand(PathOf(e.db), e.homeKnown)
         THEN Returned(ResolvePath(ExpandUser(PathOf(e.db))), "env")
         ELSE HomeError
    ELSE IF e.homeKnown
         THEN Returned(Join(XdgDataHome(e), "rag-server"),
                       IF e.xdg.kind = "unset" THEN "home" ELSE "xdg")
         ELSE Returned([anchor |-> "rel", parts |-> <<"chroma">>], "fallback")

\* RAGServer._get_database_directory
GetDatabaseDirectory(e) ==
    IF Truthy(e.db)
    THEN IF CanExpand(PathOf(e.db), e.homeKnown)
         THEN Returned(ResolvePath(ExpandUser(PathOf(e.db))), "env")
         ELSE HomeError
    ELSE IF e.homeKnown
         THEN Returned(Join(XdgDataHome(e), "rag-server"),
                       IF e.xdg.kind = "unset" THEN "home" ELSE "xdg")
         ELSE NoDatabaseDirectoryError

NotConfiguredMessage ==
    [kind |-> "not_configured",
     phrases |-> { "No data directory is configured", "LLAMA_RAG_DATA_DIR",
                   "export LLAMA_RAG_DATA_DIR", "mkdir data",
                   "reingest_data_directory" }]

-----------------------------------------------------------------------------
(* The data directory and the store.                                       *)

\* the files a data directory may hold; NestedFiles are those in a subdirectory
Files == { "a.txt", "b.pdf", "sub/a.txt" }
NestedFiles == { "sub/a.txt" }

\* metadata["file_name"] of a file's documents: the last component of its path
FileName(f) == IF f = "sub/a.txt" THEN "a.txt" ELSE f

\* the number of documents SimpleDirectoryReader gives for a file: one for a text
\* file, one per page for a PDF
Parts(f) == IF f = "b.pdf" THEN 2 ELSE 1

\* the documents of a file, and of a set of files
Document(f, part) == [file |-> f, part |-> part]
Documents(f) == { Document(f, part) : part \in 1..Parts(f) }
DocumentsOf(files) == UNION { Documents(f) : f \in files }

\* len(content) of a document, stored as metadata["chunk_size"]
ContentLen(d) ==
    IF d.file = "b.pdf" THEN (IF d.part = 1 THEN 3 ELSE 5)
    ELSE IF d.file = "a.txt" THEN 4
    ELSE 2

\* data_path.glob("*") filtered by is_file(): the files directly in the directory
TopLevelFiles(files) == files \ NestedFiles

MaxIds == 2

\* what an operation returns: the kind of text or status, the count it states,
\* the phrases of a configuration message, the result blocks of a query report,
\* the per-file entries and the two corpus totals of a listing, the
\* configuration a status shows
NoFiles == [key \in {} |-> [chunks_found |-> 0, total_chunk_size |-> 0]]
NoSnapshot == [shown |-> FALSE]
Ret(kind, count) ==
    [kind |-> kind, count |-> count, phrases |-> {}, blocks |-> <<>>,
     files |-> NoFiles, total_chunks |-> 0, total_chunk_size |-> 0,
     snapshot |-> NoSnapshot]
NoRet == Ret("none", 0)
Message(m) == [Ret(m.kind, 0) EXCEPT !.phrases = m.phrases]

\* the callers of a dispatcher that does not wait for one call to return before
\* it starts the next
Callers == { 1, 2 }

\* a caller with no call in flight
NoCall ==
    [op |-> "none", pc |-> "idle", todo |-> <<>>, gen |-> 0, ret |-> NoRet, begun |-> 0]
NoCalls == [c \in Callers |-> NoCall]

\* no chunking loop
NoChunker ==
    [content |-> <<>>, chunk_size |-> 0, overlap |-> 0, start |-> 0, chunks |-> <<>>,
     windows |-> <<>>, metadatas |-> <<>>, at |-> "none"]

Idle ==
    [op |-> "none", q |-> <<>>, n |-> 0, meta |-> FALSE, k |-> 0, ret |-> NoRet,
     calls |-> {}, pre |-> {}, dir |-> {}, pass |-> "none", loaded |-> {},
     added |-> {}, good |-> {}, gen |-> 0, resetOk |-> TRUE]

EmptyStore == [dir |-> FALSE, cid |-> 0, docs |-> {}]

\* the collection "rag_documents" exists in the store
CollectionExists(s) == s.cid # 0

\* self.collection refers to the collection that exists now
HandleLive == handle # 0 /\ handle = store.cid

\* one stored entry per loaded document; the id is fresh on every load (doc.id_)
Entry(d, gen) == [file |-> d.file, part |-> d.part, gen |-> gen]

\* doc.metadata as SimpleDirectoryReader fills it: the path and the name of the
\* file the document was read from
ReaderMetadata(d) == [file_path |-> d.file, file_name |-> FileName(d.file)]

\* the metadata stored with the entry of a document: the reader's, updated
\* with the three keys the ingestion loop sets
Metadata(d) ==
    [file_name |-> ReaderMetadata(d).file_name,
     ingestion_method |-> "auto_ingest",
     chunk_size |-> ContentLen(d)] @@ ReaderMetadata(d)

\* metadata.get(key, default)
Get(metadata, key, default) ==
    IF key \in DOMAIN metadata THEN metadata[key] ELSE default

\* shutil.rmtree(chroma_path) in safe_reset_chromadb: on success the directory is
\* gone; on failure it may be left whole or without the collection's data
ResetOutcomes(s) ==
    IF s.dir
    THEN { [ok |-> TRUE, store |-> EmptyStore],
           [ok |-> FALSE, store |-> s],
           [ok |-> FALSE, store |-> [dir |-> TRUE, cid |-> 0, docs |-> {}]] }
    ELSE { [ok |-> TRUE, store |-> s] }

\* get_or_create_collection in the place of create_collection: an existing
\* collection is opened with what it holds
GetOrCreateCollection(s) == [ok |-> TRUE, docs |-> s.docs]

\* chroma_client.create_collection(name="rag_documents"): raises when a collection
\* of that name exists, else creates an empty one
CreateCollection(s) ==
    IF CollectionExists(s)
    THEN [ok |-> FALSE, docs |-> {}]
    ELSE [ok |-> TRUE, docs |-> {}]

\* RAGServer._auto_ingest_files, run on the collection holding docs. fate says
\* what happens to each file of the directory: SimpleDirectoryReader.load_data
\* raises on it ("load_raises"), gives no document for it ("skipped"), or gives
\* documents whose collection.add raises for all of them ("add_raises"), for all
\* but the first ("partly"), or for none ("ingested").
AutoIngest(docs, gen, fate) ==
    LET r == GetDataDirectory(env, cwdData)
        good == { f \in dirFiles : fate[f] = "ingested" }
        quit(pass) ==
            [docs |-> docs, pass |-> pass, loaded |-> {}, added |-> {}, good |-> good]
    IN  IF r.kind = "ValueError" THEN quit("not_configured")
        ELSE IF r.kind # "path" THEN quit("failed")
        ELSE IF TopLevelFiles(dirFiles) = {} THEN quit("no_files")
        ELSE IF \E f \in dirFiles : fate[f] = "load_raises" THEN quit("failed")
        ELSE LET loaded == DocumentsOf({ f \in dirFiles :
                                fate[f] \in { "ingested", "add_raises", "partly" } })
                 added == DocumentsOf(good)
                          \cup { Document(f, 1) : f \in { g \in dirFiles : fate[g] = "partly" } }
             IN  IF loaded = {} THEN quit("no_documents")
                 ELSE [docs |-> docs \cup { Entry(d, gen) : d \in added },
                       pass |-> "completed", loaded |-> loaded, added |-> added,
                       good |-> good]

Fates ==
    { fate \in [dirFiles -> { "ingested", "add_raises", "partly", "skipped", "load_raises" }] :
        \A f \in dirFiles : fate[f] = "partly" => Parts(f) > 1 }

-----------------------------------------------------------------------------
(* Startup: RAGServer.__init__ and _initialize_chromadb.                   *)

\* _initialize_chromadb logs and re-raises: the constructor fails
Crash(s, c, ro) ==
    /\ phase' = "crashed"
    /\ store' = s
    /\ client' = c
    /\ handle' = 0
    /\ last' = [Idle EXCEPT !.op = "startup", !.ret = Ret("raised", 0),
                            !.pre = store.docs, !.resetOk = ro]
    /\ UNCHANGED nextId

Started(s1, ro, fate) ==
    LET id == nextId + 1
        ing == AutoIngest(CreateCollection(s1).docs, id, fate)
    IN  /\ phase' = "started"
        /\ client' = TRUE
        /\ handle' = id
        /\ nextId' = id
        /\ store' = [dir |-> TRUE, cid |-> id, docs |-> ing.docs]
        /\ last' = [Idle EXCEPT !.op = "startup", !.ret = Ret("started", 0),
                                !.calls = { "create_collection" }, !.pre = store.docs,
                                !.dir = dirFiles, !.pass = ing.pass,
                                !.loaded = ing.loaded, !.added = ing.added,
                                !.good = ing.good, !.gen = id, !.resetOk = ro]

Startup ==
    /\ phase = "boot"
    /\ nextId < MaxIds
    /\ UNCHANGED <<env, cwdData, dirFiles, resolved, reported, chunker, running>>
    /\ IF GetDatabaseDirectory(env).kind # "path"
       THEN Crash(store, FALSE, TRUE)
       ELSE \E reset \in ResetOutcomes(store) :
               LET s1 == [reset.store EXCEPT !.dir = TRUE]
               IN  \/ Crash(s1, FALSE, reset.ok)    \* os.makedirs or PersistentClient raises
                   \/ Crash(s1, TRUE, reset.ok)     \* create_collection or count raises
                   \/ /\ CreateCollection(s1).ok
                      /\ \E fate \in Fates : Started(s1, reset.ok, fate)

\* mcp.run("stdio"), which main runs once RAGServer() has returned: requests
\* are accepted from here on
Run ==
    /\ phase = "started"
    /\ phase' = "serving"
    /\ last' = Idle
    /\ UNCHANGED <<env, cwdData, dirFiles, resolved, store, client, handle, nextId, reported, chunker, running>>

\* the process ends; what it wrote to the store directory stays on disk
Exit ==
    /\ phase \in { "started", "serving", "crashed" }
    /\ phase' = "boot"
    /\ client' = FALSE
    /\ handle' = 0
    /\ last' = Idle
    /\ reported' = {}
    /\ UNCHANGED <<chunker, running>>
    /\ UNCHANGED <<env, cwdData, dirFiles, resolved, store, nextId>>

-----------------------------------------------------------------------------
(* The caller-facing tools.                                                *)

\* a query is a sequence of characters
Chars == { " ", "t" }
MaxQueryLen == 1
Queries == UNION { [1..len -> Chars] : len \in 0..MaxQueryLen }

\* the values of n_results that are tried
NResults == { -3, 0, 1, 3, 4, 5, 6, 20, 21, 50 }

RECURSIVE LStrip(_)
LStrip(q) == IF q # <<>> /\ Head(q) = " " THEN LStrip(Tail(q)) ELSE q

RECURSIVE RStrip(_)
RStrip(q) ==
    IF q # <<>> /\ q[Len(q)] = " " THEN RStrip(SubSeq(q, 1, Len(q) - 1)) ELSE q

\* str.strip()
Strip(q) == RStrip(LStrip(q))

\* n_results brought into 5..20
ClampToRange(n) == IF n < 5 THEN 5 ELSE IF n > 20 THEN 20 ELSE n

\* the validation of n_results in query_documents
ClampResults(n) == IF n <= 0 THEN 5 ELSE IF n > 20 THEN 20 ELSE n

Min(a, b) == IF a < b THEN a ELSE b

\* RAGServer._check_data_directory_configured: (True, ...) for a path,
\* (False, message) for the ValueError; any other exception passes through
CheckDataDirectoryConfigured ==
    LET r == GetDataDirectory(env, cwdData)
    IN  IF r.kind = "path" THEN "configured"
        ELSE IF r.kind = "ValueError" THEN "not_configured"
        ELSE "raised"

\* a request is accepted when no response is outstanding
Ready == phase = "serving" /\ last.op = "none"

\* the distance the store computes between the query and a document, in units
\* of 1/10000
Distance(d) ==
    IF d.file = "a.txt" THEN 2500
    ELSE IF d.file = "b.pdf" THEN (IF d.part = 1 THEN 10000 ELSE 13336)
    ELSE 7004

\* the entries of a collection, nearest first
RECURSIVE Ranked(_)
Ranked(docs) ==
    IF docs = {} THEN <<>>
    ELSE LET near == CHOOSE e \in docs :
                        \A o \in docs : Distance(Document(e.file, e.part))
                                          <= Distance(Document(o.file, o.part))
         IN  <<near>> \o Ranked(docs \ { near })

\* collection.query(query_texts=[query], n_results=k, include=[...]): the k
\* nearest entries, or all of them when there are fewer
QueryStore(docs, k) == SubSeq(Ranked(docs), 1, Min(k, Cardinality(docs)))

\* f"{x:.3f}" of x given in units of 1/10000: the nearest multiple of 1/1000
Format3(x) == IF x >= 0 THEN (x + 5) \div 10 ELSE 0 - ((5 - x) \div 10)

NoScore == [shown |-> FALSE, value |-> 0]

\* one "--- Result i ---" block of the report: the content, and the source,
\* chunk and score lines when include_metadata is set and the metadata is not
\* empty
ResultBlock(i, e, meta) ==
    [number |-> i,
     content |-> Document(e.file, e.part),
     source |-> IF meta THEN Get(Metadata(e), "source_file", "Unknown") ELSE "",
     chunk_index |-> IF meta THEN Get(Metadata(e), "chunk_index", "Unknown") ELSE "",
     total_chunks |-> IF meta THEN Get(Metadata(e), "total_chunks", "Unknown") ELSE "",
     score |-> IF meta
               THEN [shown |-> TRUE,
                     value |-> Format3(10000 - Distance(Document(e.file, e.part)))]
               ELSE NoScore]

\* the store query and the report with no handler for a store call that raises
QueryAnswerUncaught(call, k, meta, storeOk) ==
    LET asked == [call EXCEPT !.calls = { "query" }, !.k = k]
        hits == QueryStore(store.docs, k)
    IN  IF ~(HandleLive /\ storeOk) THEN [asked EXCEPT !.ret = Ret("raised", 0)]
        ELSE IF hits = <<>> THEN [asked EXCEPT !.ret = Ret("no_results", 0)]
        ELSE [asked EXCEPT
                !.ret = [Ret("report", Len(hits)) EXCEPT
                           !.blocks = [i \in 1..Len(hits) |-> ResultBlock(i, hits[i], meta)]]]

\* the store query and the report without the "No relevant documents" answer
QueryAnswerUnguarded(call, k, meta, storeOk) ==
    LET asked == [call EXCEPT !.calls = { "query" }, !.k = k]
        hits == QueryStore(store.docs, k)
    IN  IF ~(HandleLive /\ storeOk) THEN [asked EXCEPT !.ret = Ret("error_querying", 0)]
        ELSE [asked EXCEPT
                !.ret = [Ret("report", Len(hits)) EXCEPT
                           !.blocks = [i \in 1..Len(hits) |-> ResultBlock(i, hits[i], meta)]]]

\* query_documents from the store query on
QueryAnswer(call, k, meta, storeOk) ==
    LET asked == [call EXCEPT !.calls = { "query" }, !.k = k]
        hits == QueryStore(store.docs, k)
    IN  IF ~(HandleLive /\ storeOk) THEN [asked EXCEPT !.ret = Ret("error_querying", 0)]
        ELSE IF hits = <<>> THEN [asked EXCEPT !.ret = Ret("no_results", 0)]
        ELSE [asked EXCEPT
                !.ret = [Ret("report", Len(hits)) EXCEPT
                           !.blocks = [i \in 1..Len(hits) |-> ResultBlock(i, hits[i], meta)]]]

\* query_documents without the data directory check that comes first
QueryDocumentsUnchecked(q, n, meta, storeOk) ==
    LET call == [Idle EXCEPT !.op = "query_documents", !.q = q, !.n = n, !.meta = meta,
                             !.pre = store.docs]
    IN  IF Strip(q) = <<>> THEN [call EXCEPT !.ret = Ret("empty_query", 0)]
        ELSE QueryAnswer(call, ClampResults(n), meta, storeOk)

\* query_documents with the empty-query check moved before the data directory check
QueryDocumentsValidateFirst(q, n, meta, storeOk) ==
    LET call == [Idle EXCEPT !.op = "query_documents", !.q = q, !.n = n, !.meta = meta,
                             !.pre = store.docs]
        cfg == CheckDataDirectoryConfigured
    IN  IF Strip(q) = <<>> THEN [call EXCEPT !.ret = Ret("empty_query", 0)]
        ELSE IF cfg = "not_configured" THEN [call EXCEPT !.ret = Message(NotConfiguredMessage)]
        ELSE IF cfg = "raised" THEN [call EXCEPT !.ret = Ret("error_querying", 0)]
        ELSE QueryAnswer(call, ClampResults(n), meta, storeOk)

\* RAGServer.query_documents
QueryDocumentsResult(q, n, meta, storeOk) ==
    LET call == [Idle EXCEPT !.op = "query_documents", !.q = q, !.n = n, !.meta = meta,
                             !.pre = store.docs]
        cfg == CheckDataDirectoryConfigured
    IN  IF cfg = "not_configured" THEN [call EXCEPT !.ret = Message(NotConfiguredMessage)]
        ELSE IF cfg = "raised" THEN [call EXCEPT !.ret = Ret("error_querying", 0)]
        ELSE IF Strip(q) = <<>> THEN [call EXCEPT !.ret = Ret("empty_query", 0)]
        ELSE QueryAnswer(call, ClampResults(n), meta, storeOk)

QueryDocuments ==
    /\ Ready
    /\ \E q \in Queries, n \in NResults, meta \in BOOLEAN, storeOk \in BOOLEAN :
          last' = QueryDocumentsResult(q, n, meta, storeOk)
    /\ UNCHANGED <<env, cwdData, dirFiles, resolved, phase, store, client, handle, nextId, reported, chunker, running>>

\* file_name alone as the key of a listing entry
FileKeyByName(e) == <<FileName(e.file), "">>

\* the key of a listing entry: file_name and file_path of the stored metadata
FileKey(e) == <<FileName(e.file), e.file>>

\* the loop of list_ingested_files over the stored metadata: chunks_found and
\* total_chunk_size accumulated per key
RECURSIVE FileInfo(_, _)
FileInfo(entries, info) ==
    IF entries = {} THEN info
    ELSE LET e == CHOOSE x \in entries : TRUE
             key == FileKey(e)
             old == IF key \in DOMAIN info THEN info[key]
                    ELSE [chunks_found |-> 0, total_chunk_size |-> 0]
             new == [chunks_found |-> old.chunks_found + 1,
                     total_chunk_size |-> old.total_chunk_size
                                          + ContentLen(Document(e.file, e.part))]
         IN  FileInfo(entries \ { e },
                      [k \in DOMAIN info \cup { key } |-> IF k = key THEN new ELSE info[k]])

\* sum(info[field] for info in file_info.values())
RECURSIVE SumInfo(_, _, _)
SumInfo(info, keys, field) ==
    IF keys = {} THEN 0
    ELSE LET key == CHOOSE k \in keys : TRUE
         IN  info[key][field] + SumInfo(info, keys \ { key }, field)

\* list_ingested_files without its two "No files have been ingested yet." answers
ListIngestedFilesHeaderOnly(storeOk) ==
    LET call == [Idle EXCEPT !.op = "list_ingested_files", !.pre = store.docs]
        cfg == CheckDataDirectoryConfigured
        info == FileInfo(store.docs, NoFiles)
    IN  IF cfg = "not_configured" THEN [call EXCEPT !.ret = Message(NotConfiguredMessage)]
        ELSE IF cfg = "raised" THEN [call EXCEPT !.ret = Ret("error_listing", 0)]
        ELSE IF ~(HandleLive /\ storeOk)
             THEN [call EXCEPT !.ret = Ret("error_listing", 0), !.calls = { "get" }]
        ELSE [call EXCEPT
                !.calls = { "get" },
                !.ret = [Ret("listing", Cardinality(DOMAIN info)) EXCEPT
                           !.files = info,
                           !.total_chunks = SumInfo(info, DOMAIN info, "chunks_found"),
                           !.total_chunk_size = SumInfo(info, DOMAIN info, "total_chunk_size")]]

\* RAGServer.list_ingested_files: every stored entry carries file_name
ListIngestedFilesResult(storeOk) ==
    LET call == [Idle EXCEPT !.op = "list_ingested_files", !.pre = store.docs]
        cfg == CheckDataDirectoryConfigured
        info == FileInfo(store.docs, NoFiles)
    IN  IF cfg = "not_configured" THEN [call EXCEPT !.ret = Message(NotConfiguredMessage)]
        ELSE IF cfg = "raised" THEN [call EXCEPT !.ret = Ret("error_listing", 0)]
        ELSE IF ~(HandleLive /\ storeOk)
             THEN [call EXCEPT !.ret = Ret("error_listing", 0), !.calls = { "get" }]
        ELSE IF store.docs = {}
             THEN [call EXCEPT !.ret = Ret("no_files_ingested", 0), !.calls = { "get" }]
        ELSE [call EXCEPT
                !.calls = { "get" },
                !.ret = [Ret("listing", Cardinality(DOMAIN info)) EXCEPT
                           !.files = info,
                           !.total_chunks = SumInfo(info, DOMAIN info, "chunks_found"),
                           !.total_chunk_size = SumInfo(info, DOMAIN info, "total_chunk_size")]]

ListIngestedFiles ==
    /\ Ready
    /\ \E storeOk \in BOOLEAN : last' = ListIngestedFilesResult(storeOk)
    /\ UNCHANGED <<env, cwdData, dirFiles, resolved, phase, store, client, handle, nextId, reported, chunker, running>>

\* get_rag_status with total_documents counted from the data directory
GetRagStatusCountsDirectory(storeOk) ==
    LET call == [Idle EXCEPT !.op = "get_rag_status", !.pre = store.docs]
        db == GetDatabaseDirectory(env)
        data == GetDataDirectory(env, cwdData)
    IN  IF db.kind # "path" \/ data.kind = "RuntimeError"
        THEN [call EXCEPT !.ret = Ret("status_error", 0)]
        ELSE [call EXCEPT !.ret = Ret("status_active", Cardinality(DocumentsOf(dirFiles)))]

\* env_vars with the API key shown like the two directory variables
EnvVarsUnredacted(e) ==
    [LLAMA_RAG_DATA_DIR |-> [set |-> Truthy(e.data), value |-> e.data],
     LLAMA_RAG_DB_DIR |-> [set |-> Truthy(e.db), value |-> e.db],
     LLAMA_CLOUD_API_KEY |-> [set |-> e.key # "", value |-> e.key]]

\* get_rag_status: env_vars
EnvVars(e) ==
    [LLAMA_RAG_DATA_DIR |-> [set |-> Truthy(e.data), value |-> e.data],
     LLAMA_RAG_DB_DIR |-> [set |-> Truthy(e.db), value |-> e.db],
     LLAMA_CLOUD_API_KEY |-> [set |-> e.key # "",
                              value |-> IF e.key # "" THEN "[REDACTED]" ELSE "None"]]

\* get_rag_status: what the "active" result shows besides total_documents
StatusSnapshot(e) ==
    LET db == GetDatabaseDirectory(e)
        data == GetDataDirectory(e, cwdData)
    IN  [shown |-> TRUE,
         system |-> [database_initialized |-> client,
                     collection_ready |-> handle # 0,
                     auto_ingestion_enabled |-> data.kind = "path"],
         database |-> [directory |-> db.path,
                       source |-> IF Truthy(e.db) THEN "environment" ELSE "standard"],
         data_directory |-> [path |-> data.path,
                             configured |-> data.kind = "path",
                             source |-> IF data.kind # "path" THEN "none"
                                        ELSE IF Truthy(e.data) THEN "environment"
                                        ELSE "workspace"],
         environment_variables |-> EnvVars(e)]

\* RAGServer.get_rag_status, run in the environment e
GetRagStatusIn(e, storeOk) ==
    LET call == [Idle EXCEPT !.op = "get_rag_status", !.pre = store.docs]
        db == GetDatabaseDirectory(e)
        data == GetDataDirectory(e, cwdData)
        counted == IF handle = 0 THEN call ELSE [call EXCEPT !.calls = { "count" }]
    IN  IF handle # 0 /\ ~(HandleLive /\ storeOk)
        THEN [counted EXCEPT !.ret = Ret("status_error", 0)]
        ELSE IF db.kind # "path" \/ data.kind = "RuntimeError"
             THEN [counted EXCEPT !.ret = Ret("status_error", 0)]
             ELSE [counted EXCEPT
                     !.ret = [Ret("status_active",
                                  IF handle = 0 THEN 0 ELSE Cardinality(store.docs))
                              EXCEPT !.snapshot = StatusSnapshot(e)]]

\* RAGServer.get_rag_status
GetRagStatusResult(storeOk) == GetRagStatusIn(env, storeOk)

GetRagStatus ==
    /\ Ready
    /\ \E storeOk \in BOOLEAN : last' = GetRagStatusResult(storeOk)
    /\ reported' = reported \cup { [status |-> last'.ret.kind, total_documents |-> last'.ret.count] }
    /\ UNCHANGED <<chunker, running>>
    /\ UNCHANGED <<env, cwdData, dirFiles, resolved, phase, store, client, handle, nextId>>

\* RAGServer.reingest_data_directory, after the checks that come first
Reingested(call, fate, countOk) ==
    LET id == nextId + 1
        ing == AutoIngest(CreateCollection([store EXCEPT !.cid = 0, !.docs = {}]).docs,
                          id, fate)
    IN  /\ nextId' = id
        /\ handle' = id
        /\ store' = [store EXCEPT !.cid = id, !.docs = ing.docs]
        /\ last' = [call EXCEPT
                      !.ret = IF countOk THEN Ret("reingested", Cardinality(ing.docs))
                              ELSE Ret("error_reingesting", 0),
                      !.calls = { "delete_collection", "create_collection", "count" }
                                \cup (IF ing.loaded # {} THEN { "add" } ELSE {}),
                      !.dir = dirFiles, !.pass = ing.pass, !.loaded = ing.loaded,
                      !.added = ing.added, !.good = ing.good, !.gen = id]

\* RAGServer.reingest_data_directory
ReingestDataDirectory ==
    /\ Ready
    /\ reported' = {}
    /\ UNCHANGED <<chunker, running>>
    /\ UNCHANGED <<env, cwdData, dirFiles, resolved, phase, client>>
    /\ LET call == [Idle EXCEPT !.op = "reingest_data_directory", !.pre = store.docs]
           cfg == CheckDataDirectoryConfigured
       IN  IF cfg = "not_configured"
           THEN /\ last' = [call EXCEPT !.ret = Message(NotConfiguredMessage)]
                /\ UNCHANGED <<store, handle, nextId>>
           ELSE IF cfg = "raised"
           THEN /\ last' = [call EXCEPT !.ret = Ret("error_reingesting", 0)]
                /\ UNCHANGED <<store, handle, nextId>>
           ELSE IF handle = 0
           THEN /\ last' = [call EXCEPT !.ret = Ret("not_initialized", 0)]
                /\ UNCHANGED <<store, handle, nextId>>
           ELSE \/ \* delete_collection raises: the store fails, or there is no collection
                   /\ last' = [call EXCEPT !.ret = Ret("error_reingesting", 0),
                                           !.calls = { "delete_collection" }]
                   /\ UNCHANGED <<store, handle, nextId>>
                \/ \* delete_collection succeeds and create_collection raises
                   /\ CollectionExists(store)
                   /\ last' = [call EXCEPT !.ret = Ret("error_reingesting", 0),
                                           !.calls = { "delete_collection",
                                                       "create_collection" }]
                   /\ store' = [store EXCEPT !.cid = 0, !.docs = {}]
                   /\ UNCHANGED <<handle, nextId>>
                \/ /\ CollectionExists(store)
                   /\ nextId < MaxIds
                   /\ \E fate \in Fates, countOk \in BOOLEAN : Reingested(call, fate, countOk)

\* the response reaches the caller
Respond ==
    /\ phase = "serving"
    /\ last.op # "none"
    /\ last' = Idle
    /\ UNCHANGED <<env, cwdData, dirFiles, resolved, phase, store, client, handle, nextId, reported, chunker, running>>

-----------------------------------------------------------------------------
(* The user's changes to the file system while the server runs or is down. *)

DataDirectoryResolves == GetDataDirectory(env, cwdData).kind = "path"

\* mkdir data in the current directory
MkdirData ==
    /\ ~cwdData
    /\ cwdData' = TRUE
    /\ UNCHANGED <<env, dirFiles, resolved, phase, store, client, handle, nextId, last, reported, chunker, running>>

\* ./data is removed or renamed away, with what it holds
RmdirData ==
    /\ cwdData
    /\ cwdData' = FALSE
    /\ dirFiles' = IF Truthy(env.data) THEN dirFiles ELSE {}
    /\ UNCHANGED <<env, resolved, phase, store, client, handle, nextId, last, reported, chunker, running>>

\* a file is put into the data directory
AddFile ==
    /\ DataDirectoryResolves
    /\ \E f \in Files \ dirFiles : dirFiles' = dirFiles \cup { f }
    /\ UNCHANGED <<env, cwdData, resolved, phase, store, client, handle, nextId, last, reported, chunker, running>>

\* a file is removed from the data directory
RemoveFile ==
    /\ \E f \in dirFiles : dirFiles' = dirFiles \ { f }
    /\ UNCHANGED <<env, cwdData, resolved, phase, store, client, handle, nextId, last, reported, chunker, running>>

-----------------------------------------------------------------------------
(* The server: one process after another over the same store directory.    *)

Env(data, db, xdg, homeKnown, key) ==
    [data |-> data, db |-> db, xdg |-> xdg, homeKnown |-> homeKnown, key |-> key]

\* the environments the server is run in
ServerEnvs ==
    { Env(Unset, Unset, Unset, TRUE, ""),
      Env(TextOf("abs", <<"srv", "docs">>), TextOf("abs", <<"srv", "db">>), Unset, TRUE, "k1"),
      Env(TextOf("tilde", <<"docs">>), TextOf("abs", <<"srv", "db">>), Unset, FALSE, ""),
      Env(Unset, Unset, Unset, FALSE, "") }

NotResolved == [fn |-> "none", result |-> Raised("none", {})]

Init ==
    /\ env \in ServerEnvs
    /\ cwdData = FALSE
    /\ dirFiles = {}
    /\ resolved = NotResolved
    /\ phase = "boot"
    /\ store = EmptyStore
    /\ client = FALSE
    /\ handle = 0
    /\ nextId = 0
    /\ last = Idle
    /\ reported = {}
    /\ chunker = NoChunker
    /\ running = NoCalls

Next ==
    \/ Startup
    \/ Run
    \/ Exit
    \/ QueryDocuments
    \/ ListIngestedFiles
    \/ ReingestDataDirectory
    \/ GetRagStatus
    \/ Respond
    \/ MkdirData
    \/ RmdirData
    \/ AddFile
    \/ RemoveFile

Spec == Init /\ [][Next]_vars

-----------------------------------------------------------------------------
(* Directory resolution on its own, over every environment.                *)

AllEnvs ==
    { Env(data, db, xdg, homeKnown, key) :
        data \in DataEnvValues, db \in DbEnvValues, xdg \in XdgEnvValues,
        homeKnown \in BOOLEAN, key \in { "" } }

InitResolve ==
    /\ env \in AllEnvs
    /\ cwdData \in BOOLEAN
    /\ dirFiles = {}
    /\ resolved = NotResolved
    /\ phase = "boot"
    /\ store = EmptyStore
    /\ client = FALSE
    /\ handle = 0
    /\ nextId = 0
    /\ last = Idle
    /\ reported = {}
    /\ chunker = NoChunker
    /\ running = NoCalls

ResolveDataDirectory ==
    /\ resolved' = [fn |-> "data", result |-> GetDataDirectory(env, cwdData)]
    /\ UNCHANGED <<env, cwdData, dirFiles, phase, store, client, handle, nextId, last, reported, chunker, running>>

ResolveDatabaseDirectory ==
    /\ resolved' = [fn |-> "database", result |-> GetDatabaseDirectory(env)]
    /\ UNCHANGED <<env, cwdData, dirFiles, phase, store, client, handle, nextId, last, reported, chunker, running>>

NextResolve == ResolveDataDirectory \/ ResolveDatabaseDirectory

SpecResolve == InitResolve /\ [][NextResolve]_vars

-----------------------------------------------------------------------------
(* The chunking loop of the ingestion scripts (tests/simple_test_llamaparse.py): *)
(* windows of chunk_size characters, each starting overlap characters     *)
(* before the end of the one before, cut back to the last space when a    *)
(* window would end inside a word.                                        *)

MaxTextLen == 5
MaxChunkSize == 4
MaxChunks == 6

Texts == UNION { [1..len -> Chars] : len \in 0..MaxTextLen }

\* the bounds of the slice s[a:b]: a negative index counts from the end, and
\* an index beyond either end is brought to that end
Clip(n, i) ==
    IF i < 0 THEN (IF i + n < 0 THEN 0 ELSE i + n)
    ELSE IF i > n THEN n ELSE i

\* s[a:b]
Slice(s, a, b) ==
    LET lo == Clip(Len(s), a)
        hi == Clip(Len(s), b)
    IN  IF lo < hi THEN SubSeq(s, lo + 1, hi) ELSE <<>>

\* s[i] is an IndexError unless -len(s) <= i < len(s)
IndexOk(s, i) == 0 - Len(s) <= i /\ i < Len(s)

\* s[i], a negative index counting from the end
CharAt(s, i) == s[(IF i < 0 THEN i + Len(s) ELSE i) + 1]

\* str.isspace() of one character
IsSpace(c) == c = " "

\* s.rfind(' '): the index of the last space of s, counted from 0, or -1
RFind(s) ==
    IF \E i \in 1..Len(s) : s[i] = " "
    THEN (CHOOSE i \in 1..Len(s) : s[i] = " " /\ \A j \in (i + 1)..Len(s) : s[j] # " ") - 1
    ELSE 0 - 1

\* the variables of the loop before its first iteration
Chunking(content, chunk_size, overlap) ==
    [content |-> content, chunk_size |-> chunk_size, overlap |-> overlap, start |-> 0,
     chunks |-> <<>>, windows |-> <<>>, metadatas |-> <<>>, at |-> "loop"]

\* the scripts run the loop outside the server
NoServer ==
    /\ env = Env(Unset, Unset, Unset, TRUE, "")
    /\ cwdData = FALSE
    /\ dirFiles = {}
    /\ resolved = NotResolved
    /\ phase = "boot"
    /\ store = EmptyStore
    /\ client = FALSE
    /\ handle = 0
    /\ nextId = 0
    /\ last = Idle
    /\ reported = {}
    /\ running = NoCalls

InitChunk ==
    /\ NoServer
    /\ \E content \in Texts, chunk_size \in 2..MaxChunkSize :
          \E overlap \in 1..(chunk_size - 1) :
              chunker = Chunking(content, chunk_size, overlap)

\* one iteration of "while start < len(content)"
ChunkStep ==
    /\ chunker.at = "loop"
    /\ chunker.start < Len(chunker.content)
    /\ Len(chunker.chunks) < MaxChunks
    /\ LET content == chunker.content
           start == chunker.start
           window == start + chunker.chunk_size
           chunk == Slice(content, start, window)
           last_space == RFind(chunk)
           inside == window < Len(content)
           cut == /\ inside
                  /\ ~IsSpace(CharAt(content, window))
                  /\ last_space > start
           end == IF cut THEN start + last_space ELSE window
       IN  IF inside /\ ~IndexOk(content, window)
           THEN chunker' = [chunker EXCEPT !.at = "index_error"]
           ELSE chunker' = [chunker EXCEPT
                              !.chunks = Append(@, Strip(Slice(content, start, end))),
                              !.windows = Append(@, [start |-> start, end |-> end]),
                              !.start = end - chunker.overlap]
    /\ UNCHANGED <<env, cwdData, dirFiles, resolved, phase, store, client, handle, nextId,
                   last, reported, running>>

\* the metadata written with the chunks: one record a chunk, in order
ChunkMetadatas(chunks) ==
    [i \in 1..Len(chunks) |->
        [chunk_index |-> i - 1, total_chunks |-> Len(chunks), chunk_size |-> Len(chunks[i])]]

\* the loop condition fails: the chunks are complete and get their metadata
ChunkDone ==
    /\ chunker.at = "loop"
    /\ chunker.start >= Len(chunker.content)
    /\ chunker' = [chunker EXCEPT !.metadatas = ChunkMetadatas(chunker.chunks),
                                  !.at = "done"]
    /\ UNCHANGED <<env, cwdData, dirFiles, resolved, phase, store, client, handle, nextId,
                   last, reported, running>>

NextChunk == ChunkStep \/ ChunkDone

SpecChunk == InitChunk /\ [][NextChunk]_vars

\* the same loop entered with an overlap that is not below the chunk size:
\* nothing before "while" looks at the two values
InitOverlap ==
    /\ NoServer
    /\ \E content \in Texts, chunk_size \in 1..MaxChunkSize :
          \E overlap \in chunk_size..MaxChunkSize :
              chunker = Chunking(content, chunk_size, overlap)

SpecOverlap == InitOverlap /\ [][NextChunk]_vars

\* The loop at the sizes of a long document: a text of 12,000 characters cut
\* with chunk_size 5000 and overlap 800.  The texts differ in where their
\* spaces stand; every other character is a letter.
ScenarioSizes == [length |-> 12000, chunk_size |-> 5000, overlap |-> 800]

\* offsets at which a text of the scenario may have a space
ScenarioSpaces == {800, 4000, 4999, 5000, 8399, 11999}

ScenarioText(spaces) ==
    [i \in 1..ScenarioSizes.length |-> IF (i - 1) \in spaces THEN " " ELSE "t"]

InitScenario ==
    /\ NoServer
    /\ \E spaces \in SUBSET ScenarioSpaces :
          chunker = Chunking(ScenarioText(spaces), ScenarioSizes.chunk_size,
                             ScenarioSizes.overlap)

SpecScenario == InitScenario /\ [][NextChunk]_vars

-----------------------------------------------------------------------------
(* The tools under a dispatcher that runs calls concurrently.  RAGServer   *)
(* takes no lock, so the store calls of one call interleave with those of  *)
(* another; self.collection is read anew at every store call.  An action   *)
(* is one store call of one call, with the statements that lead to it.     *)

\* reingest_data_directory calls one caller makes
MaxReingests == 1

\* the position of a document in the list load_data returns: files by path, the
\* pages of a file in order
LoadOrder(d) ==
    (IF d.file = "a.txt" THEN 0 ELSE IF d.file = "b.pdf" THEN Parts("b.pdf") ELSE 2 * Parts("b.pdf"))
    + d.part

\* SimpleDirectoryReader.load_data over files that are all readable
LoadData(files) ==
    LET docs == DocumentsOf(files)
    IN  CHOOSE s \in [1..Cardinality(docs) -> docs] :
            \A i, j \in 1..Cardinality(docs) : i < j => LoadOrder(s[i]) < LoadOrder(s[j])

\* a lock around the tools: a call starts when no other call is in flight
AcceptedInTurn(c) ==
    /\ running[c].pc = "idle"
    /\ \A other \in Callers : running[other].pc = "idle"

\* a tool function starts as soon as the dispatcher calls it: nothing in
\* RAGServer makes a call wait for another
Accepted(c) == running[c].pc = "idle"

\* the state of caller c changes to call
Becomes(c, call) == running' = [running EXCEPT ![c] = call]

Returning(c, ret) == Becomes(c, [running[c] EXCEPT !.pc = "returned", !.ret = ret])

\* the server is serving what it ingested at startup
InitConcurrent ==
    /\ env = Env(TextOf("abs", <<"srv", "docs">>), TextOf("abs", <<"srv", "db">>), Unset,
                 TRUE, "k1")
    /\ cwdData = FALSE
    /\ dirFiles \in { { "b.pdf" }, { "a.txt", "b.pdf" } }
    /\ resolved = NotResolved
    /\ phase = "serving"
    /\ store = [dir |-> TRUE, cid |-> 1, docs |-> { Entry(d, 1) : d \in DocumentsOf(dirFiles) }]
    /\ client = TRUE
    /\ handle = 1
    /\ nextId = 1
    /\ last = Idle
    /\ reported = {}
    /\ chunker = NoChunker
    /\ running = NoCalls

\* reingest_data_directory up to its first store call
ReingestBegins(c) ==
    /\ Accepted(c)
    /\ running[c].begun < MaxReingests
    /\ LET call == [running[c] EXCEPT !.op = "reingest_data_directory", !.begun = @ + 1]
           cfg == CheckDataDirectoryConfigured
       IN  IF cfg = "not_configured"
           THEN Becomes(c, [call EXCEPT !.pc = "returned", !.ret = Message(NotConfiguredMessage)])
           ELSE IF cfg = "raised"
           THEN Becomes(c, [call EXCEPT !.pc = "returned", !.ret = Ret("error_reingesting", 0)])
           ELSE IF handle = 0
           THEN Becomes(c, [call EXCEPT !.pc = "returned", !.ret = Ret("not_initialized", 0)])
           ELSE Becomes(c, [call EXCEPT !.pc = "delete"])
    /\ UNCHANGED <<env, cwdData, dirFiles, resolved, phase, store, client, handle, nextId,
                   last, reported, chunker>>

\* self.chroma_client.delete_collection("rag_documents")
DeleteCollection(c) ==
    /\ running[c].pc = "delete"
    /\ IF CollectionExists(store)
       THEN /\ store' = [store EXCEPT !.cid = 0, !.docs = {}]
            /\ Becomes(c, [running[c] EXCEPT !.pc = "create"])
       ELSE /\ Returning(c, Ret("error_reingesting", 0))
            /\ UNCHANGED store
    /\ UNCHANGED <<env, cwdData, dirFiles, resolved, phase, client, handle, nextId, last,
                   reported, chunker>>

\* self.collection = self.chroma_client.create_collection(...)
CreateCollectionAnew(c) ==
    /\ running[c].pc = "create"
    /\ IF CreateCollection(store).ok
       THEN /\ nextId' = nextId + 1
            /\ store' = [store EXCEPT !.cid = nextId + 1, !.docs = CreateCollection(store).docs]
            /\ handle' = nextId + 1
            /\ Becomes(c, [running[c] EXCEPT !.pc = "load", !.gen = nextId + 1])
       ELSE /\ Returning(c, Ret("error_reingesting", 0))
            /\ UNCHANGED <<store, handle, nextId>>
    /\ UNCHANGED <<env, cwdData, dirFiles, resolved, phase, client, last, reported, chunker>>

\* _auto_ingest_files up to the loop over the documents
LoadDocuments(c) ==
    /\ running[c].pc = "load"
    /\ Becomes(c, [running[c] EXCEPT
                     !.pc = "add",
                     !.todo = IF GetDataDirectory(env, cwdData).kind = "path"
                                 /\ TopLevelFiles(dirFiles) # {}
                              THEN LoadData(dirFiles) ELSE <<>>])
    /\ UNCHANGED <<env, cwdData, dirFiles, resolved, phase, store, client, handle, nextId,
                   last, reported, chunker>>

\* one iteration of the loop: self.collection.add of the next document, in
\* the collection self.collection refers to now; an add that raises is logged
\* and the loop goes on
AddDocument(c) ==
    /\ running[c].pc = "add"
    /\ running[c].todo # <<>>
    /\ store' = IF HandleLive
                THEN [store EXCEPT !.docs = @ \cup { Entry(Head(running[c].todo), running[c].gen) }]
                ELSE store
    /\ Becomes(c, [running[c] EXCEPT !.todo = Tail(@)])
    /\ UNCHANGED <<env, cwdData, dirFiles, resolved, phase, client, handle, nextId, last,
                   reported, chunker>>

\* total_docs = self.collection.count() and the return of reingest_data_directory
CountDocuments(c) ==
    /\ running[c].pc = "add"
    /\ running[c].todo = <<>>
    /\ Returning(c, IF HandleLive THEN Ret("reingested", Cardinality(store.docs))
                    ELSE Ret("error_reingesting", 0))
    /\ UNCHANGED <<env, cwdData, dirFiles, resolved, phase, store, client, handle, nextId,
                   last, reported, chunker>>

\* query_documents or list_ingested_files: each makes one store call
Reads(c) ==
    /\ Accepted(c)
    /\ \/ Becomes(c, [running[c] EXCEPT
                         !.op = "query_documents", !.pc = "returned",
                         !.ret = QueryDocumentsResult(<<"t">>, 0, FALSE, TRUE).ret])
       \/ Becomes(c, [running[c] EXCEPT
                         !.op = "list_ingested_files", !.pc = "returned",
                         !.ret = ListIngestedFilesResult(TRUE).ret])
    /\ UNCHANGED <<env, cwdData, dirFiles, resolved, phase, store, client, handle, nextId,
                   last, reported, chunker>>

\* the response of a call reaches its caller
Returns(c) ==
    /\ running[c].pc = "returned"
    /\ Becomes(c, [NoCall EXCEPT !.begun = running[c].begun])
    /\ UNCHANGED <<env, cwdData, dirFiles, resolved, phase, store, client, handle, nextId,
                   last, reported, chunker>>

NextConcurrent ==
    \E c \in Callers :
        \/ ReingestBegins(c)
        \/ DeleteCollection(c)
        \/ CreateCollectionAnew(c)
        \/ LoadDocuments(c)
        \/ AddDocument(c)
        \/ CountDocuments(c)
        \/ Reads(c)
        \/ Returns(c)

SpecConcurrent == InitConcurrent /\ [][NextConcurrent]_vars

-----------------------------------------------------------------------------
(* Startup, reingestion and ingestion passes.                              *)

\* the documents the entries of a collection were made from
StoredDocuments(docs) == { Document(e.file, e.part) : e \in docs }

\* C1: when RAGServer() has returned and requests are about to be accepted, the
\* collection exists, is the one self.collection refers to, and holds exactly the
\* entries this startup's ingestion pass added: none that was in the store
\* directory before, whether or not deleting the store directory succeeded.
C1_StartupServesOnlyThisStartup ==
    phase = "started" =>
        /\ HandleLive
        /\ store.docs = { Entry(d, last.gen) : d \in last.added }
        /\ store.docs \cap last.pre = {}

\* a startup whose reset of the store directory failed although an earlier
\* process had left entries there, and which ingested files of its own
C1_Witness ==
    /\ phase = "started"
    /\ ~last.resetOk
    /\ last.pre # {}
    /\ store.docs # {}

\* C2: when reingest_data_directory has returned, with any message, the
\* collection exists and holds either what it held before the call or an entry
\* for every document the call loaded from the data directory.
C2_ReingestAtomic ==
    last.op = "reingest_data_directory" =>
        /\ HandleLive
        /\ \/ store.docs = last.pre
           \/ /\ last.pass \in { "completed", "no_files", "no_documents" }
              /\ StoredDocuments(store.docs) = last.loaded

\* C3: when reingest_data_directory returns its success message, no entry stored
\* before the call remains, the collection holds one entry for every document the
\* call loaded, and the count in the message is the collection's size.
C3_ReingestEquivalent ==
    (last.op = "reingest_data_directory" /\ last.ret.kind = "reingested") =>
        /\ store.docs \cap last.pre = {}
        /\ StoredDocuments(store.docs) = last.loaded
        /\ Cardinality(store.docs) = Cardinality(last.loaded)
        /\ last.ret.count = Cardinality(store.docs)

\* C4: after an ingestion pass in which some file of the data directory failed,
\* every document of a file whose own parse and store adds succeed is in the
\* collection.
C4_FailureNeverAbortsBatch ==
    ( /\ \/ phase = "started"
         \/ last.op = "reingest_data_directory"
      /\ last.pass \notin { "none", "not_configured" }
      /\ last.dir \ last.good # {} ) =>
        \A d \in DocumentsOf(last.good) : Entry(d, last.gen) \in store.docs

-----------------------------------------------------------------------------
(* The tools and the data directory.                                       *)

GuardedTools == { "query_documents", "list_ingested_files", "reingest_data_directory" }

\* C5: a call of query_documents, list_ingested_files or reingest_data_directory
\* made while LLAMA_RAG_DATA_DIR is unset and ./data does not exist returns the
\* not-configured message with its three remediation phrases, makes no store
\* call, and leaves the store, the collection handle and the client as they were.
C5_UnconfiguredToolsTouchNothing ==
    [][ ( /\ Ready
          /\ last'.op \in GuardedTools
          /\ env.data.kind = "unset"
          /\ ~cwdData ) =>
        ( /\ last'.ret.kind = "not_configured"
          /\ { "No data directory is configured", "LLAMA_RAG_DATA_DIR", "mkdir data" }
                \subseteq last'.ret.phrases
          /\ last'.calls = {}
          /\ store' = store
          /\ handle' = handle
          /\ client' = client ) ]_vars

\* a query with text in it, answered with the not-configured message while the
\* collection holds entries
C5_Witness ==
    /\ last.op = "query_documents"
    /\ Strip(last.q) # <<>>
    /\ last.ret.kind = "not_configured"
    /\ env.data.kind = "unset"
    /\ ~cwdData
    /\ store.docs # {}
    /\ HandleLive

-----------------------------------------------------------------------------
(* Directory resolution.                                                   *)

\* the absolute location an environment value names: "~" is the home directory,
\* a relative value is taken from the current directory
Location(v) ==
    [anchor |-> "abs",
     parts |-> Normalize(<<>>, (IF v.anchor = "tilde" THEN HomeParts
                                ELSE IF v.anchor = "rel" THEN CwdParts
                                ELSE <<>>) \o v.parts)]

RemediationPhrases == { "LLAMA_RAG_DATA_DIR", "mkdir data" }

\* C6, as stated: the data directory resolution returns the value of
\* LLAMA_RAG_DATA_DIR whenever the variable is set, else <cwd>/data if it exists,
\* else fails with the configuration error and returns no path.
C6_DataResolutionWheneverSet ==
    resolved.fn = "data" =>
        LET r == resolved.result
        IN  /\ env.data.kind # "unset" =>
                r.kind = "path" /\ r.source = "env" /\ r.path = Location(env.data)
            /\ (env.data.kind = "unset" /\ cwdData) =>
                r.kind = "path" /\ r.path = Join(CwdPath, "data")
            /\ (env.data.kind = "unset" /\ ~cwdData) =>
                /\ r.kind = "ValueError"
                /\ r.path = NoPath
                /\ RemediationPhrases \subseteq r.phrases

\* C6, amended: a non-empty LLAMA_RAG_DATA_DIR is returned, "~" expanded and made
\* absolute, whether or not ./data exists (a "~" that cannot be expanded raises
\* RuntimeError); an empty value counts as unset; then <cwd>/data if it exists;
\* then the configuration error with its remediation text and no path.
C6_DataResolutionOrder ==
    resolved.fn = "data" =>
        LET r == resolved.result
            given == env.data.kind = "text"
            expands == env.data.anchor # "tilde" \/ env.homeKnown
        IN  /\ (given /\ expands) =>
                r.kind = "path" /\ r.source = "env" /\ r.path = Location(env.data)
            /\ (given /\ ~expands) => r.kind = "RuntimeError" /\ r.path = NoPath
            /\ (~given /\ cwdData) =>
                r.kind = "path" /\ r.source = "cwd" /\ r.path = Join(CwdPath, "data")
            /\ (~given /\ ~cwdData) =>
                /\ r.kind = "ValueError"
                /\ r.path = NoPath
                /\ RemediationPhrases \subseteq r.phrases

\* a relative LLAMA_RAG_DATA_DIR wins over an existing ./data
C6_Witness ==
    /\ resolved.fn = "data"
    /\ env.data = TextOf("rel", <<"..", "docs">>)
    /\ cwdData
    /\ resolved.result.path = [anchor |-> "abs", parts |-> <<"work", "docs">>]

StandardLocation ==
    Join(IF env.xdg.kind = "unset"
         THEN [anchor |-> "abs", parts |-> HomeParts \o <<".local", "share">>]
         ELSE PathOf(env.xdg),
         "rag-server")

C8_ResolvedPathsAbsolute ==
    resolved.result.kind = "path" => resolved.result.path.anchor = "abs"

-----------------------------------------------------------------------------
(* query_documents.                                                        *)

\* C9, as stated: a query_documents call with an empty or whitespace-only query
\* returns the empty-query error and makes no store call, in every state.
C9_EmptyQueryAlwaysRejected ==
    (last.op = "query_documents" /\ Strip(last.q) = <<>>) =>
        last.ret.kind = "empty_query" /\ last.calls = {}

\* C9, amended: such a call makes no store call and changes nothing in any
\* state; it returns the empty-query error when the data directory resolves,
\* the not-configured message when it is not configured, and the query error
\* string when the resolution raises another error.
C9_EmptyQueryNoStoreCall ==
    [][ ( /\ Ready
          /\ last'.op = "query_documents"
          /\ Strip(last'.q) = <<>> ) =>
        ( /\ last'.calls = {}
          /\ store' = store
          /\ handle' = handle
          /\ LET r == GetDataDirectory(env, cwdData)
             IN  last'.ret.kind = IF r.kind = "path" THEN "empty_query"
                                  ELSE IF r.kind = "ValueError" THEN "not_configured"
                                  ELSE "error_querying" ) ]_vars

\* a whitespace-only query rejected while the collection holds entries
C9_Witness ==
    /\ last.op = "query_documents"
    /\ last.q # <<>>
    /\ Strip(last.q) = <<>>
    /\ last.ret.kind = "empty_query"
    /\ last.calls = {}
    /\ store.docs # {}
    /\ HandleLive

\* C10: the result count passed to the store's query is n_results brought into
\* 5..20: the nearest bound when n_results is outside, n_results when inside.
C10_ResultCountClamped ==
    "query" \in last.calls =>
        /\ last.k \in 5..20
        /\ last.k = IF last.n < 5 THEN 5 ELSE IF last.n > 20 THEN 20 ELSE last.n

QueryReturnKinds ==
    { "not_configured", "empty_query", "no_results", "error_querying", "report" }

\* C12: every return of query_documents is the not-configured message, the
\* empty-query error, the no-results message, a query error, or a report whose
\* header count N is at least 1 and which has N result blocks, numbered 1..N,
\* holding the N nearest entries of the collection, nearest first.
C12_NoEmptySuccess ==
    last.op = "query_documents" =>
        /\ last.ret.kind \in QueryReturnKinds
        /\ last.ret.kind = "report" =>
              LET blocks == last.ret.blocks
                  shown == { blocks[i].content : i \in 1..Len(blocks) }
              IN  /\ last.ret.count >= 1
                  /\ Len(blocks) = last.ret.count
                  /\ \A i \in 1..Len(blocks) : blocks[i].number = i
                  /\ shown \subseteq StoredDocuments(store.docs)
                  /\ Cardinality(shown) = Len(blocks)
                  /\ \A i, j \in 1..Len(blocks) :
                        i < j => Distance(blocks[i].content) <= Distance(blocks[j].content)
                  /\ \A d \in StoredDocuments(store.docs) \ shown :
                        \A c \in shown : Distance(c) <= Distance(d)

\* a report of one block, the nearest entry of a larger collection
C12_Witness ==
    /\ last.op = "query_documents"
    /\ last.ret.kind = "report"
    /\ last.ret.count = 1
    /\ Len(last.ret.blocks) = 1
    /\ Cardinality(store.docs) >= 3

\* C13: every result block of a query_documents report carries a similarity
\* score, and the score is 1 - distance of its hit (to the three decimals the
\* report prints), whatever include_metadata is.
C13_EveryHitScored ==
    (last.op = "query_documents" /\ last.ret.kind = "report") =>
        \A i \in 1..Len(last.ret.blocks) :
            LET b == last.ret.blocks[i]
            IN  /\ b.score.shown
                /\ b.score.value = Format3(10000 - Distance(b.content))

-----------------------------------------------------------------------------
(* list_ingested_files and get_rag_status.                                 *)

\* the stored entries whose metadata has the given file_name and file_path
EntriesOf(name, path) ==
    { e \in store.docs : FileName(e.file) = name /\ e.file = path }

RECURSIVE TotalLen(_)
TotalLen(entries) ==
    IF entries = {} THEN 0
    ELSE LET e == CHOOSE x \in entries : TRUE
         IN  ContentLen(Document(e.file, e.part)) + TotalLen(entries \ { e })

\* C14: a listing has one entry per distinct (file_name, file_path) of the stored
\* entries; the entry's chunk count is the number of stored entries with that
\* pair and its size the sum of their chunk_size; "Total chunks in database" is
\* the number of entries in the collection.
C14_ListingGroupsByFile ==
    (last.op = "list_ingested_files" /\ last.ret.kind = "listing") =>
        LET files == last.ret.files
        IN  /\ DOMAIN files = { <<FileName(e.file), e.file>> : e \in store.docs }
            /\ last.ret.count = Cardinality(DOMAIN files)
            /\ \A key \in DOMAIN files :
                  /\ files[key].chunks_found = Cardinality(EntriesOf(key[1], key[2]))
                  /\ files[key].total_chunk_size = TotalLen(EntriesOf(key[1], key[2]))
            /\ last.ret.total_chunks = Cardinality(store.docs)
            /\ last.ret.total_chunk_size = TotalLen(store.docs)

\* a listing of two files of the same name in different directories and of a
\* file stored as two entries
C14_Witness ==
    /\ last.op = "list_ingested_files"
    /\ last.ret.kind = "listing"
    /\ last.ret.count = 3
    /\ <<"a.txt", "a.txt">> \in DOMAIN last.ret.files
    /\ <<"a.txt", "sub/a.txt">> \in DOMAIN last.ret.files
    /\ last.ret.files[<<"b.pdf", "b.pdf">>].chunks_found = 2
    /\ last.ret.total_chunks = 4

\* C15, as stated: whenever the collection exists and is empty,
\* list_ingested_files returns "No files have been ingested yet.".
C15_EmptyCollectionAlwaysListsNoFiles ==
    (last.op = "list_ingested_files" /\ HandleLive /\ store.docs = {}) =>
        last.ret.kind = "no_files_ingested"

\* C15, amended: called on a collection that exists and is empty,
\* list_ingested_files returns "No files have been ingested yet." when the data
\* directory resolves and the store's get succeeds; it returns the not-configured
\* message when no data directory is configured, and the listing error when
\* the resolution or the store's get raises.
C15_EmptyCollectionListsNoFiles ==
    [][ ( /\ Ready
          /\ last'.op = "list_ingested_files"
          /\ HandleLive
          /\ store.docs = {} ) =>
        LET r == GetDataDirectory(env, cwdData)
        IN  /\ r.kind = "ValueError" =>
                last'.ret.kind = "not_configured" /\ last'.calls = {}
            /\ r.kind = "RuntimeError" =>
                last'.ret.kind = "error_listing" /\ last'.calls = {}
            /\ r.kind = "path" =>
                /\ last'.calls = { "get" }
                /\ last'.ret.kind \in { "no_files_ingested", "error_listing" } ]_vars

\* the empty collection of a startup that found files it could not ingest
C15_Witness ==
    /\ last.op = "list_ingested_files"
    /\ last.ret.kind = "no_files_ingested"
    /\ last.calls = { "get" }
    /\ HandleLive
    /\ store.docs = {}
    /\ dirFiles # {}

\* C16, as stated: the get_rag_status calls made with no reingestion between
\* them all return the same total_documents.
C16_StatusCountsAlwaysAgree ==
    \A a, b \in reported : a.total_documents = b.total_documents

ReadingTools == { "get_rag_status", "query_documents", "list_ingested_files" }

\* C16, amended: get_rag_status, query_documents and list_ingested_files leave
\* the collection as it is, and a get_rag_status call that reports status
\* "active" returns the total_documents of every "active" result returned since
\* the last reingestion (a call whose count or directory resolution raises
\* reports status "error" with total_documents 0).
C16_ActiveStatusCountsAgree ==
    [][ (Ready /\ last'.op \in ReadingTools) =>
        ( /\ store' = store
          /\ handle' = handle
          /\ (last'.op = "get_rag_status" /\ last'.ret.kind = "status_active") =>
                \A r \in reported :
                    r.status = "status_active" => r.total_documents = last'.ret.count ) ]_vars

\* an "active" status with a count above zero, returned after an "error" status
\* and after the files were taken out of the data directory
C16_Witness ==
    /\ last.op = "get_rag_status"
    /\ last.ret.kind = "status_active"
    /\ last.ret.count > 1
    /\ [status |-> "status_error", total_documents |-> 0] \in reported
    /\ dirFiles = {}

\* C17: the value of LLAMA_CLOUD_API_KEY is in no get_rag_status result: the
\* result shows "[REDACTED]" in its place, and a call made with a key set returns
\* what it returns under any other non-empty key.
C17_ApiKeyRedacted ==
    [][ (Ready /\ last'.op = "get_rag_status" /\ env.key # "") =>
        ( /\ last'.ret.kind = "status_active" =>
                LET shown == last'.ret.snapshot.environment_variables.LLAMA_CLOUD_API_KEY
                IN  shown.set /\ shown.value = "[REDACTED]"
          /\ \A key \in KeyValues \ { "" } :
                \E storeOk \in BOOLEAN :
                    GetRagStatusIn([env EXCEPT !.key = key], storeOk) = last' ) ]_vars

\* an "active" status returned by a server started with an API key
C17_Witness ==
    /\ last.op = "get_rag_status"
    /\ last.ret.kind = "status_active"
    /\ env.key = "k1"
    /\ last.ret.snapshot.environment_variables.LLAMA_CLOUD_API_KEY.value = "[REDACTED]"
    /\ last.ret.snapshot.environment_variables.LLAMA_RAG_DB_DIR.value = env.db

-----------------------------------------------------------------------------
(* Failures.                                                               *)

Tools ==
    { "query_documents", "list_ingested_files", "reingest_data_directory", "get_rag_status" }

\* what each tool returns: texts for three of them, a status for get_rag_status
ReturnKinds ==
    [t \in Tools |->
        CASE t = "query_documents" -> QueryReturnKinds
          [] t = "list_ingested_files" ->
                { "not_configured", "error_listing", "no_files_ingested", "listing" }
          [] t = "reingest_data_directory" ->
                { "not_configured", "error_reingesting", "not_initialized", "reingested" }
          [] t = "get_rag_status" -> { "status_active", "status_error" }]

FailureKinds ==
    { "error_querying", "error_listing", "error_reingesting", "not_initialized",
      "status_error" }

\* C18: every call of a tool returns one of the tool's texts or statuses, and
\* returns one that describes a failure when the resolution of the data directory
\* raises an error other than the configuration error, or when the call reaches
\* the store and self.collection does not refer to an existing collection.
C18_ToolsNeverRaise ==
    [][ (Ready /\ last'.op \in Tools) =>
        ( /\ last'.ret.kind \in ReturnKinds[last'.op]
          /\ GetDataDirectory(env, cwdData).kind = "RuntimeError" =>
                last'.ret.kind \in FailureKinds
          /\ (~HandleLive /\ last'.calls # {}) => last'.ret.kind \in FailureKinds ) ]_vars

\* a query answered with the query error after a reingestion that deleted the
\* collection and could not create the new one
C18_Witness ==
    /\ last.op = "query_documents"
    /\ last.ret.kind = "error_querying"
    /\ last.calls = { "query" }
    /\ handle # 0
    /\ store.cid = 0

\* C19: when the ingestion pass of reingest_data_directory failed as a whole, or
\* failed for a file of the data directory, the call does not return the success
\* message it returns for a pass in which every file succeeded.
C19_FailedPassReported ==
    ( /\ last.op = "reingest_data_directory"
      /\ last.pass # "none"
      /\ \/ last.pass = "failed"
         \/ last.dir \ last.good # {} ) =>
        last.ret.kind # "reingested"

-----------------------------------------------------------------------------
(* Chunking.                                                               *)

\* C20: with 0 < overlap < chunk_size, every iteration of the chunking loop
\* completes and leaves the start offset greater than it was, also when the
\* window is cut back to a space, so that the offset reaches the length of the
\* text after finitely many iterations.
C20_StartStrictlyIncreases ==
    [][ (chunker.at = "loop" /\ chunker.start < Len(chunker.content)) =>
        (chunker'.at = "loop" /\ chunker'.start > chunker.start) ]_vars

-----------------------------------------------------------------------------
-----------------------------------------------------------------------------
\* C22: every chunk the loop emits is non-empty after trimming, and a text
\* that is empty or all whitespace ends with no chunk at all.
C22_NoEmptyChunk ==
    /\ \A i \in 1..Len(chunker.chunks) : Strip(chunker.chunks[i]) # <<>>
    /\ (chunker.at = "done" /\ Strip(chunker.content) = <<>>) => chunker.chunks = <<>>

\* a text of whitespace alone has been chunked to the end
C22_Witness ==
    /\ chunker.at = "done"
    /\ chunker.content # <<>>
    /\ Strip(chunker.content) = <<>>
    /\ chunker.chunks # <<>>

-----------------------------------------------------------------------------
\* C23: a text of 12,000 characters cut with chunk_size 5000 and overlap 800
\* gives exactly 3 chunks, with chunk_index 0, 1, 2 and total_chunks 3 on
\* each, wherever the spaces of the text stand.
C23_ThreeChunks ==
    /\ Len(chunker.chunks) <= 3
    /\ chunker.at = "done" =>
          /\ Len(chunker.chunks) = 3
          /\ \A i \in 1..3 : /\ chunker.metadatas[i].chunk_index = i - 1
                              /\ chunker.metadatas[i].total_chunks = 3

\* a text of the scenario with a space in it has been cut to the end
C23_Witness ==
    /\ chunker.at = "done"
    /\ Len(chunker.content) = ScenarioSizes.length
    /\ \E i \in 1..Len(chunker.content) : chunker.content[i] = " "

-----------------------------------------------------------------------------
\* C24: the entries stored for one source document carry chunk_index values
\* that are exactly 0..total_chunks-1, each once, and total_chunks is the
\* number of entries stored for that document.
C24_ChunkIndexesComplete ==
    \A e \in store.docs :
        LET entries == { x \in store.docs : x.file = e.file }
        IN  /\ "chunk_index" \in DOMAIN Metadata(e)
            /\ "total_chunks" \in DOMAIN Metadata(e)
            /\ Metadata(e)["total_chunks"] = Cardinality(entries)
            /\ { Metadata(x)["chunk_index"] : x \in entries }
                   = 0..(Cardinality(entries) - 1)

\* an ingestion pass has stored every document of a file of two pages
C24_Witness ==
    /\ last.pass = "completed"
    /\ \E gen \in 1..MaxIds :
          { Entry(d, gen) : d \in Documents("b.pdf") } \subseteq store.docs

-----------------------------------------------------------------------------
\* C25: every window the loop emits, from whatever start offset, ends where
\* the word-boundary rule puts it: at the last space inside the window when
\* the character after the window exists, is not whitespace and the window
\* has a space, and chunk_size characters after its start otherwise.
C25_WordBoundaryAtEveryWindow ==
    \A i \in 1..Len(chunker.windows) :
        LET content == chunker.content
            start == chunker.windows[i].start
            after == start + chunker.chunk_size
            window == Slice(content, start, after)
            shrunk == /\ after < Len(content)
                      /\ ~IsSpace(content[after + 1])
                      /\ \E j \in 1..Len(window) : window[j] = " "
        IN  start >= 0 =>
                chunker.windows[i].end = IF shrunk THEN start + RFind(window) ELSE after

\* a window after the first has been emitted that has a space in it and a
\* letter right after it
C25_Witness ==
    \E i \in 2..Len(chunker.windows) :
        LET start == chunker.windows[i].start
            after == start + chunker.chunk_size
        IN  /\ start > 0
            /\ after < Len(chunker.content)
            /\ ~IsSpace(chunker.content[after + 1])
            /\ \E j \in (start + 1)..after : chunker.content[j] = " "

-----------------------------------------------------------------------------
\* a reingestion of caller c has deleted the collection and not yet created it
Deleted(c) == running[c].pc = "create"

\* a reingestion of caller c has created the collection and not yet added
\* every document to it
Repopulating(c) == running[c].pc = "load" \/ (running[c].pc = "add" /\ running[c].todo # <<>>)

\* C26: nothing holds a reader back while a reingestion is under way: whenever
\* a reingest_data_directory call stands between its delete_collection and
\* its create_collection, or has not yet added every document, a call of
\* query_documents or list_ingested_files by another caller can run at once,
\* against the store as it is then.
C26_ReaderRunsDuringReingestion ==
    \A c, r \in Callers :
        ((Deleted(c) \/ Repopulating(c)) /\ running[r].pc = "idle") => ENABLED Reads(r)

\* a query has run against the deleted collection: it returned the query
\* error while the reingestion had still to create the collection; or a
\* listing has run against a collection that held part of the documents
C26_Witness ==
    \E c, r \in Callers :
        \/ /\ Deleted(c)
           /\ running[r].pc = "returned"
           /\ running[r].op = "query_documents"
           /\ running[r].ret.kind = "error_querying"
        \/ /\ Repopulating(c)
           /\ running[r].pc = "returned"
           /\ running[r].op = "list_ingested_files"
           /\ running[r].ret.kind = "listing"
           /\ running[r].ret.total_chunks < Cardinality(DocumentsOf(dirFiles))

-----------------------------------------------------------------------------
\* C27: once every call has returned, after two or more reingestions have run
\* in any interleaving, the collection holds each document of the data
\* directory exactly once, and every entry was added by the call that created
\* the collection.
C27_NoDuplicatesAfterReingestions ==
    (/\ \A c \in Callers : running[c].pc = "idle"
     /\ \E c1, c2 \in Callers : c1 # c2 /\ running[c1].begun > 0 /\ running[c2].begun > 0
     /\ CollectionExists(store))
    => /\ \A d \in DocumentsOf(dirFiles) :
             Cardinality({ e \in store.docs : e.file = d.file /\ e.part = d.part }) = 1
       /\ \A e \in store.docs : e.gen = store.cid

\* two reingestions have run to their end, each having created a collection
C27_Witness ==
    /\ \A c \in Callers : running[c].pc = "idle" /\ running[c].begun > 0
    /\ nextId >= 3

-----------------------------------------------------------------------------
\* a reingestion failed between delete_collection and create_collection:
\* self.collection refers to a collection that is no more
HandleStale == handle # 0 /\ ~CollectionExists(store)

\* C28: a reingest_data_directory call made after a reingestion failed
\* between delete_collection and create_collection, in which no store call
\* fails of its own accord, ends with the collection existing and
\* self.collection referring to it.
C28_FailedReingestionRecoverable ==
    [][(/\ Ready
        /\ HandleStale
        /\ CheckDataDirectoryConfigured = "configured"
        /\ last'.op = "reingest_data_directory")
       => /\ CollectionExists(store')
          /\ handle' = store'.cid]_vars

\* a reingestion was called with the handle stale and has returned
C28_Witness ==
    /\ phase = "serving"
    /\ last.op = "reingest_data_directory"
    /\ last.calls = { "delete_collection" }
    /\ CheckDataDirectoryConfigured = "configured"
    /\ HandleStale

-----------------------------------------------------------------------------
\* C29: an ingestion pass that does not fail stores every readable file under
\* the data directory, those in subdirectories too, whether or not a file
\* stands at the top level of the directory.
C29_EveryReadableFileIngested ==
    (/\ phase \in { "started", "serving" }
     /\ last.op \in { "startup", "reingest_data_directory" }
     /\ last.pass \in { "no_files", "no_documents", "completed" })
    => \A d \in DocumentsOf(last.good) : Entry(d, last.gen) \in store.docs

\* a pass has run over a directory whose only files are in a subdirectory,
\* all of them readable
C29_Witness ==
    /\ phase \in { "started", "serving" }
    /\ last.op \in { "startup", "reingest_data_directory" }
    /\ last.pass # "none"
    /\ last.dir # {}
    /\ last.dir \subseteq NestedFiles
    /\ last.good = last.dir

-----------------------------------------------------------------------------
\* C30: a query_documents report with include_metadata shows, for every entry
\* it returns, the name of the file the entry was ingested from, and neither
\* its source nor its chunk position as "Unknown".
C30_ReportShowsStoredMetadata ==
    (last.op = "query_documents" /\ last.meta /\ last.ret.kind = "report")
    => \A i \in 1..Len(last.ret.blocks) :
          LET block == last.ret.blocks[i]
          IN  /\ block.source = FileName(block.content.file)
              /\ block.source # "Unknown"
              /\ block.chunk_index # "Unknown"
              /\ block.total_chunks # "Unknown"

\* a report with include_metadata has shown an entry stored by an ingestion
\* pass
C30_Witness ==
    /\ last.op = "query_documents"
    /\ last.meta
    /\ last.ret.kind = "report"
    /\ last.ret.blocks # <<>>
    /\ \A i \in 1..Len(last.ret.blocks) :
          \E e \in store.docs : last.ret.blocks[i].content = Document(e.file, e.part)

====
